---- MODULE Spec2Model ----
(***************************************************************************)
(* Model of polonium's TilingDriver (driver/driver.ts, the second half of  *)
(* src/src/controller/actions/shortcuts.ts): the identity maps between the *)
(* abstract tree of the tiling engine and the live tiles and windows of    *)
(* the host, and the operations that keep them in step.                    *)
(*                                                                         *)
(* Objects are identified by integers.  A new object (Client, abstract     *)
(* Tile, live tile) takes an identifier past every one a variable refers   *)
(* to, so an identifier is never reused while a stale reference to the old *)
(* object is still held anywhere.                                          *)
(***************************************************************************)
EXTENDS Integers, Sequences, FiniteSets, TLC

\* ------------------------------------------------------------- bounds ----
NumWindows == 2     \* live windows of the host
MaxUntiled == 1     \* removeWindow is not taken with a longer untiledWindows
MaxStale   == 1     \* Clients the engine may keep after a failed removeClient

\* ---------------------------------------------------------- constants ----
Horizontal == 1
Vertical   == 2

Windows    == 1 .. NumWindows
NoWindow   == 0          \* null / undefined window
NoClient   == 0          \* null Client
NoTile     == 0          \* null / undefined abstract Tile
NoKTile    == -1         \* null live tile
GoneKTile  == -2         \* a reference to a destroyed live tile no map holds
RootKTile  == 0          \* the live root tile of the screen
NoDir      == "None"     \* direction argument left out
Directions == {"Above", "Right", "Below", "Left"}
EngineTypes == {"Kwin", "Half", "Monocle"}

\* ------------------------------------------------------- small helpers ----
SeqToSet(s) == {s[i] : i \in 1 .. Len(s)}

RECURSIVE Without(_, _)
Without(s, x) ==
    IF s = <<>> THEN <<>>
    ELSE IF Head(s) = x THEN Without(Tail(s), x)
    ELSE <<Head(s)>> \o Without(Tail(s), x)

Prefix(s, n) == SubSeq(s, 1, IF Len(s) < n THEN Len(s) ELSE n)

Suffix(s, n) == IF Len(s) <= n THEN <<>> ELSE SubSeq(s, n + 1, Len(s))

InsertAt(s, i, x) == SubSeq(s, 1, i - 1) \o <<x>> \o SubSeq(s, i, Len(s))

IndexOf(s, x) == CHOOSE i \in 1 .. Len(s) : s[i] = x

\* the i-th new identifier: past every identifier in `used`
Fresh(used, i) ==
    LET top == IF used = {} THEN 0 ELSE CHOOSE x \in used : \A y \in used : y <= x
    IN  (IF top < 0 THEN 0 ELSE top) + i

\* sizes are exact fractions <<numerator, denominator>>
Frac(n, d) == <<n, d>>
FracDiv(f, k) == <<f[1], f[2] * k>>
FracEq(f, g) == f[1] * g[2] = g[1] * f[2]

\* ---------------------------------------------------- BiMap (mnemonist) ----
\* A BiMap is kept as the sequence of its <<key, value>> pairs in insertion
\* order (the order values() iterates in).  set() evicts the pair of the key
\* and the pair of the value, so keys and values stay one-to-one.
BiEmpty == <<>>

BiKeys(m) == {m[i][1] : i \in 1 .. Len(m)}

BiValues(m) == {m[i][2] : i \in 1 .. Len(m)}

BiHas(m, k) == k \in BiKeys(m)

BiGet(m, k, none) ==
    IF k \in BiKeys(m) THEN m[CHOOSE i \in 1 .. Len(m) : m[i][1] = k][2] ELSE none

BiInvGet(m, v, none) ==
    IF v \in BiValues(m) THEN m[CHOOSE i \in 1 .. Len(m) : m[i][2] = v][1] ELSE none

\* faulty variant of BiDelete: the pair of the key stays
BiDeleteNothing(m, k) == m

BiDelete(m, k) ==
    LET Keep(p) == p[1] # k
    IN  SelectSeq(m, Keep)

\* faulty variant of BiSet: a pair is added whatever the map holds
BiSetAppend(m, k, v) == Append(m, <<k, v>>)

BiSet(m, k, v) ==
    LET Keep(p) == p[2] # v \/ p[1] = k
        m1 == SelectSeq(m, Keep)
    IN  IF BiGet(m, k, v + 1) = v THEN m
        ELSE IF BiHas(m1, k)
             THEN [i \in 1 .. Len(m1) |-> IF m1[i][1] = k THEN <<k, v>> ELSE m1[i]]
             ELSE Append(m1, <<k, v>>)

\* -------------------------------------------------- host: live tile tree ----
\* A live tile: ordered children, parent, layoutDirection and the width and
\* height of its relativeGeometry (fractions of the screen).
KTile(parent, dir, w, h) ==
    [tiles |-> <<>>, parent |-> parent, layoutDirection |-> dir, w |-> w, h |-> h]

InitKwinTiles == [t \in {RootKTile} |-> KTile(NoKTile, Horizontal, Frac(1, 1), Frac(1, 1))]

RECURSIVE KDescendants(_, _)
KDescendants(kt, t) ==
    {t} \cup UNION {KDescendants(kt, kt[t].tiles[i]) : i \in 1 .. Len(kt[t].tiles)}

\* Tile.remove(): the tile and its subtree leave the tree
KRemove(kt, t) ==
    LET gone == KDescendants(kt, t)
        p == kt[t].parent
    IN  [x \in DOMAIN kt \ gone |->
            IF x = p THEN [kt[x] EXCEPT !.tiles = Without(@, t)] ELSE kt[x]]

\* Tile.split(direction).  A tile whose parent already lays its children out
\* in `dir` gets one new sibling right after it, and the two share the
\* tile's former extent; any other tile gets two children of half its extent.
KHalf(k, dir) ==
    IF dir = Horizontal THEN [k EXCEPT !.w = FracDiv(@, 2)]
                        ELSE [k EXCEPT !.h = FracDiv(@, 2)]

KSplit(kt, used, t, dir) ==
    LET p == kt[t].parent
        a == Fresh(used, 1)
        b == Fresh(used, 2)
    IN  IF p # NoKTile /\ kt[p].layoutDirection = dir
        THEN LET half == KHalf(kt[t], dir)
                 at == IndexOf(kt[p].tiles, t)
             IN  [x \in DOMAIN kt \cup {a} |->
                    IF x = a THEN [half EXCEPT !.tiles = <<>>]
                    ELSE IF x = t THEN half
                    ELSE IF x = p THEN [kt[p] EXCEPT !.tiles = InsertAt(@, at + 1, a)]
                    ELSE kt[x]]
        ELSE LET child == KHalf(KTile(t, dir, kt[t].w, kt[t].h), dir)
             IN  [x \in DOMAIN kt \cup {a, b} |->
                    IF x \in {a, b} THEN child
                    ELSE IF x = t
                         THEN [kt[t] EXCEPT !.tiles = <<a, b>>, !.layoutDirection = dir]
                    ELSE kt[x]]

\* A live window: assigned tile and the flags buildLayout writes
InitWindow == [tile |-> NoKTile, maximized |-> FALSE, minimized |-> FALSE,
               fullScreen |-> FALSE]

\* ------------------------------------------------ abstract tiling engine ----
\* An abstract Tile of the engine's tree
ATile(parent, dir, client, kids) ==
    [tiles |-> kids, parent |-> parent, layoutDirection |-> dir,
     client |-> client, requestedSize |-> <<>>]

\* faulty variant of HasCapability: every engine has every capability
HasCapabilityAlways(eng, capability) == TRUE

HasCapability(eng, cap) == cap \in eng.engineCapability

CapabilityOf(type) ==
    IF type = "Kwin" THEN {"TilesMutable"}
    ELSE IF type = "Half" THEN {"TranslateRotation"}
    ELSE {}

\* how many Clients the layout of an engine type has room for
Capacity(type) == IF type = "Kwin" THEN 3 ELSE IF type = "Half" THEN 2 ELSE 1

\* engine.buildLayout(): the tree is rebuilt from the ordered Clients, with
\* new Tile objects; Clients beyond the layout's room are listed as untiled.
\*   Kwin: the root holds one leaf per Client (a single Client sits on the
\*         root itself).
\*   Half: the root holds a left and a right container, each around the
\*         leaf of one Client; the right one is left out while empty.
\*   Monocle: the first Client sits on the root, there is room for no other.
EngineTree(type, placed, rot, f) ==
    LET k  == Len(placed)
        d1 == IF rot THEN Vertical ELSE Horizontal
        d2 == IF rot THEN Horizontal ELSE Vertical
        leaf(p, i) == ATile(p, d1, placed[i], <<>>)
    IN  IF k = 0 THEN (f[1] :> ATile(NoTile, d1, NoClient, <<>>))
        ELSE IF type = "Half"
        THEN IF k = 1 THEN (f[1] :> ATile(NoTile, d1, NoClient, <<f[2]>>)) @@
                           (f[2] :> ATile(f[1], d2, NoClient, <<f[3]>>)) @@
                           (f[3] :> leaf(f[2], 1))
             ELSE (f[1] :> ATile(NoTile, d1, NoClient, <<f[2], f[3]>>)) @@
                  (f[2] :> ATile(f[1], d2, NoClient, <<f[4]>>)) @@
                  (f[3] :> ATile(f[1], d2, NoClient, <<f[5]>>)) @@
                  (f[4] :> leaf(f[2], 1)) @@ (f[5] :> leaf(f[3], 2))
        ELSE IF k = 1 THEN (f[1] :> leaf(NoTile, 1))
        ELSE [x \in {f[i] : i \in 1 .. k + 1} |->
                IF x = f[1]
                THEN ATile(NoTile, d1, NoClient, [i \in 1 .. k |-> f[i + 1]])
                ELSE leaf(f[1], (CHOOSE i \in 2 .. k + 1 : f[i] = x) - 1)]

EngineBuildLayout(eng, used) ==
    LET room == Capacity(eng.type)
        first == Fresh(used, 1)
    IN  [eng EXCEPT !.nodes = EngineTree(eng.type, Prefix(eng.order, room),
                                         eng.config.rotateLayout,
                                         [i \in 1 .. 5 |-> first + i - 1]),
                    !.rootTile = first,
                    !.untiledClients = Suffix(eng.order, room)]

EngineAddClient(eng, client) ==
    IF client \in SeqToSet(eng.order) THEN eng
    ELSE [eng EXCEPT !.order = Append(@, client)]

EngineRemoveClient(eng, client) == [eng EXCEPT !.order = Without(@, client)]

\* engine.putClientInTile(client, tile, direction?): the Client goes next to
\* the occupant of the tile, before it for Above and Left and after it
\* otherwise; onto a tile without occupant it is appended.
EnginePutClientInTile(eng, client, tile, dir) ==
    LET rest == Without(eng.order, client)
        occ == eng.nodes[tile].client
    IN  IF occ # NoClient /\ occ \in SeqToSet(rest)
        THEN LET at == IndexOf(rest, occ)
             IN  [eng EXCEPT !.order =
                    InsertAt(rest, IF dir \in {"Above", "Left"} THEN at ELSE at + 1, client)]
        ELSE [eng EXCEPT !.order = Append(rest, client)]

\* a new engine of the given type, as the driver's caller constructs it
NewEngine(type, rotateLayout, used) ==
    EngineBuildLayout(
        [type |-> type, order |-> <<>>, nodes |-> <<>>, rootTile |-> NoTile,
         untiledClients |-> <<>>,
         engineCapability |-> CapabilityOf(type),
         config |-> [rotateLayout |-> rotateLayout]],
        used)

\* One call into the engine: [op, client, tile, direction].  A call throws
\* when the engine is made to fail (`fails`) or when putClientInTile is given
\* a Tile that is not in the engine's tree; a throwing call changes nothing.
Call(op, client, tile, dir) == [op |-> op, client |-> client, tile |-> tile, dir |-> dir]

CallThrows(eng, call, fails) ==
    \/ fails
    \/ call.op = "putClientInTile" /\ call.tile \notin DOMAIN eng.nodes

EngineCall(eng, call, used) ==
    IF call.op = "addClient" THEN EngineAddClient(eng, call.client)
    ELSE IF call.op = "removeClient" THEN EngineRemoveClient(eng, call.client)
    ELSE IF call.op = "putClientInTile"
         THEN EnginePutClientInTile(eng, call.client, call.tile, call.dir)
    ELSE IF call.op = "buildLayout" THEN EngineBuildLayout(eng, used)
    ELSE eng    \* regenerateLayout: sizes are the engine's own business

\* the calls of one try block, in order, up to the first that throws;
\* `failAt` is the position of the call the engine is made to fail (0: none)
RECURSIVE RunCalls(_, _, _, _, _)
RunCalls(eng, todo, failAt, used, made) ==
    IF todo = <<>> THEN [engine |-> eng, calls |-> made, threw |-> FALSE]
    ELSE LET call == Head(todo)
         IN  IF CallThrows(eng, call, failAt = Len(made) + 1)
             THEN [engine |-> eng, calls |-> Append(made, call), threw |-> TRUE]
             ELSE RunCalls(EngineCall(eng, call, used), Tail(todo), failAt, used,
                           Append(made, call))

\* ------------------------------------------------------- TilingDriver ----
\* The operations are functions of a record `s`:
\*   clients, tiles, untiledWindows, engine  the driver's fields
\*   kwinTiles, windows, activeWindow        the host's tiles and windows
\*   maximizeSingle, insertionPoint          config.maximizeSingle and
\*                                           engine.config.insertionPoint, as
\*                                           the operation finds them set
\*   lastOp, calls, thrown                   what the operation did: its name,
\*                                           the engine calls it made, whether
\*                                           it let an exception out
Did(s, op, calls, thrown) ==
    [s EXCEPT !.lastOp = op, !.calls = calls, !.thrown = thrown]

\* identifiers some variable still refers to
ClientsUsed(s) ==
    BiValues(s.clients) \cup SeqToSet(s.engine.order)
        \cup SeqToSet(s.engine.untiledClients)
        \cup {s.engine.nodes[t].client : t \in DOMAIN s.engine.nodes}

TilesUsed(s) == BiValues(s.tiles)

KTilesUsed(s) ==
    DOMAIN s.kwinTiles \cup BiKeys(s.tiles) \cup {s.windows[w].tile : w \in Windows}

\* while (rootTile.tiles.length > 0) rootTile.tiles[0].remove();
RECURSIVE ClearRoot(_)
ClearRoot(kt) ==
    IF kt[RootKTile].tiles = <<>> THEN kt
    ELSE ClearRoot(KRemove(kt, Head(kt[RootKTile].tiles)))

\* faulty variant of UntiledWindowsOf: the untracked list is left empty
UntiledWindowsOfNone(clients, untiledClients) == <<>>

\* the windows of the engine's untiled Clients, those without window skipped
RECURSIVE UntiledWindowsOf(_, _)
UntiledWindowsOf(clients, untiledClients) ==
    IF untiledClients = <<>> THEN <<>>
    ELSE LET window == BiInvGet(clients, Head(untiledClients), NoWindow)
             rest == UntiledWindowsOf(clients, Tail(untiledClients))
         IN  IF window # NoWindow THEN <<window>> \o rest ELSE rest

\* faulty variant of RealRootTile: the engine's root is taken as it is
RealRootTileNoDescent(nodes, tile) == tile

\* descend through single-child tiles without occupant
RECURSIVE RealRootTile(_, _)
RealRootTile(nodes, tile) ==
    IF Len(nodes[tile].tiles) = 1 /\ nodes[tile].client = NoClient
    THEN RealRootTile(nodes, nodes[tile].tiles[1])
    ELSE tile

\* the size handed to child i - 1 (counted from 0) of kwinTile in round i
EvenSize(kt, kwinTile, i, tilesLen) ==
    LET target == kt[kwinTile].tiles[i]
    IN  IF kt[kwinTile].layoutDirection = Horizontal
        THEN [kt EXCEPT ![target].w = FracDiv(kt[kwinTile].w, tilesLen)]
        ELSE [kt EXCEPT ![target].h = FracDiv(kt[kwinTile].h, tilesLen)]

\* faulty variant of SplitTarget: round 1 splits as well
SplitTargetEveryRound(kt, kwinTile, i) ==
    IF i = 0 THEN kwinTile ELSE kt[kwinTile].tiles[i]

\* which live tile round i of the loop splits (none in round 1)
SplitTarget(kt, kwinTile, i) ==
    IF i = 0 THEN kwinTile
    ELSE IF i > 1 THEN kt[kwinTile].tiles[i]
    ELSE NoKTile

\* rounds i .. tilesLen - 1 of the loop over the children of `tile`
RECURSIVE SplitChildren(_, _, _, _)
SplitChildren(s, tile, kwinTile, i) ==
    LET node == s.engine.nodes[tile]
        tilesLen == Len(node.tiles)
        target == SplitTarget(s.kwinTiles, kwinTile, i)
        kt1 == IF target # NoKTile
               THEN KSplit(s.kwinTiles, KTilesUsed(s), target, node.layoutDirection)
               ELSE s.kwinTiles
        kt2 == IF i > 0 THEN EvenSize(kt1, kwinTile, i, tilesLen) ELSE kt1
        Round(kt) ==
            [s EXCEPT !.kwinTiles = kt,
                      !.tiles = BiSet(@, kt[kwinTile].tiles[i + 1], node.tiles[i + 1])]
    IN  IF i >= tilesLen THEN s
        ELSE SplitChildren(CHOOSE r \in {Round(kt) : kt \in {kt2}} : TRUE,
                           tile, kwinTile, i + 1)

\* faulty variant of PlaceWindow: the window is put on the live root
PlaceWindowOnRoot(s, window, kwinTile) ==
    [s EXCEPT !.windows[window] =
        [tile |-> RootKTile, maximized |-> FALSE, minimized |-> FALSE,
         fullScreen |-> FALSE]]

\* the window of an occupied tile is made visible and put on the live tile
PlaceWindow(s, window, kwinTile) ==
    [s EXCEPT !.windows[window] =
        [tile |-> kwinTile, maximized |-> FALSE, minimized |-> FALSE,
         fullScreen |-> FALSE]]

\* faulty variant of WalkQueue: an occupant without window is passed over
\* and the walk goes on
RECURSIVE WalkQueueGoesOn(_, _)
WalkQueueGoesOn(s, queue) ==
    IF queue = <<>> THEN s
    ELSE LET tile == Head(queue)
             node == s.engine.nodes[tile]
             kwinTile == BiInvGet(s.tiles, tile, NoKTile)
             tilesLen == Len(node.tiles)
             s1 == [s EXCEPT !.kwinTiles[kwinTile].layoutDirection = node.layoutDirection]
             s2 == IF tilesLen > 1 THEN SplitChildren(s1, tile, kwinTile, 0)
                   ELSE IF tilesLen = 1
                        THEN [s1 EXCEPT !.tiles = BiSet(@, kwinTile, node.tiles[1])]
                   ELSE s1
             next == IF tilesLen >= 1 THEN Tail(queue) \o node.tiles ELSE Tail(queue)
             window == BiInvGet(s.clients, node.client, NoWindow)
         IN  IF node.client # NoClient /\ window # NoWindow
             THEN WalkQueueGoesOn(PlaceWindow(s2, window, kwinTile), next)
             ELSE WalkQueueGoesOn(s2, next)

\* the breadth-first walk; a missing window of an occupant ends it at once
RECURSIVE WalkQueue(_, _)
WalkQueue(s, queue) ==
    IF queue = <<>> THEN s
    ELSE LET tile == Head(queue)
             node == s.engine.nodes[tile]
             kwinTile == BiInvGet(s.tiles, tile, NoKTile)
             tilesLen == Len(node.tiles)
             s1 == [s EXCEPT !.kwinTiles[kwinTile].layoutDirection = node.layoutDirection]
             s2 == IF tilesLen > 1 THEN SplitChildren(s1, tile, kwinTile, 0)
                   ELSE IF tilesLen = 1
                        THEN [s1 EXCEPT !.tiles = BiSet(@, kwinTile, node.tiles[1])]
                   ELSE s1
             next == IF tilesLen >= 1 THEN Tail(queue) \o node.tiles ELSE Tail(queue)
             window == BiInvGet(s.clients, node.client, NoWindow)
         IN  IF node.client # NoClient
             THEN IF window = NoWindow THEN s2
                  ELSE WalkQueue(PlaceWindow(s2, window, kwinTile), next)
             ELSE WalkQueue(s2, next)

\* if the real root holds a Client and maximizeSingle is set, maximize it
MaximizeSingle(s, realRootTile) ==
    LET window == BiInvGet(s.clients, s.engine.nodes[realRootTile].client, NoWindow)
    IN  IF window = NoWindow THEN s
        ELSE [s EXCEPT !.windows[window].tile = NoKTile,
                       !.windows[window].maximized = TRUE]

TakesMaximizeSingle(s) ==
    /\ s.engine.nodes[RealRootTile(s.engine.nodes, s.engine.rootTile)].client # NoClient
    /\ s.maximizeSingle

\* faulty variant of BuildLayoutFn: untiledWindows is not emptied first
BuildLayoutFnKeepsList(s) ==
    LET s0 == [s EXCEPT !.kwinTiles = ClearRoot(@),
                        !.tiles = BiEmpty,
                        !.untiledWindows =
                            @ \o UntiledWindowsOf(s.clients, s.engine.untiledClients)]
        realRootTile == RealRootTile(s.engine.nodes, s.engine.rootTile)
    IN  Did(IF TakesMaximizeSingle(s)
            THEN MaximizeSingle(s0, realRootTile)
            ELSE WalkQueue([s0 EXCEPT !.tiles = BiSet(@, RootKTile, realRootTile)],
                           <<realRootTile>>),
            "buildLayout", <<>>, FALSE)

BuildLayoutFn(s) ==
    LET s0 == [s EXCEPT !.kwinTiles = ClearRoot(@),
                        !.tiles = BiEmpty,
                        !.untiledWindows =
                            UntiledWindowsOf(s.clients, s.engine.untiledClients)]
        realRootTile == RealRootTile(s.engine.nodes, s.engine.rootTile)
    IN  Did(IF TakesMaximizeSingle(s)
            THEN MaximizeSingle(s0, realRootTile)
            ELSE WalkQueue([s0 EXCEPT !.tiles = BiSet(@, RootKTile, realRootTile)],
                           <<realRootTile>>),
            "buildLayout", <<>>, FALSE)

\* the abstract Tile of the active window's live tile; NoTile when there is
\* no active window, it has no tile, or its tile is not registered
ActiveTile(s) ==
    IF s.activeWindow = NoWindow THEN NoTile
    ELSE IF s.windows[s.activeWindow].tile = NoKTile THEN NoTile
    ELSE BiGet(s.tiles, s.windows[s.activeWindow].tile, NoTile)

\* faulty variant of AddWindowFn: a window that has a Client gets a new one
AddWindowFnNoGuard(s, window, failAt) ==
    LET client == Fresh(ClientsUsed(s), 1)
        s1 == [s EXCEPT !.clients = BiSet(@, window, client)]
        tile == ActiveTile(s)
        failedActive == s.insertionPoint # "Active" \/ tile = NoTile
        put == Call("putClientInTile", client, tile, NoDir)
        r == IF failedActive
             THEN RunCalls(s.engine,
                           <<Call("addClient", client, NoTile, NoDir),
                             Call("buildLayout", NoClient, NoTile, NoDir)>>,
                           failAt, TilesUsed(s), <<>>)
             ELSE RunCalls(EnginePutClientInTile(s.engine, client, tile, NoDir),
                           <<Call("buildLayout", NoClient, NoTile, NoDir)>>,
                           failAt, TilesUsed(s), <<put>>)
    IN  IF ~failedActive /\ CallThrows(s.engine, put, failAt = 1)
        THEN Did(s1, "addWindow", <<put>>, TRUE)
        ELSE Did([s1 EXCEPT !.engine = r.engine], "addWindow", r.calls, FALSE)

AddWindowFn(s, window, failAt) ==
    LET client == Fresh(ClientsUsed(s), 1)
        s1 == [s EXCEPT !.clients = BiSet(@, window, client)]
        tile == ActiveTile(s)
        failedActive == s.insertionPoint # "Active" \/ tile = NoTile
        put == Call("putClientInTile", client, tile, NoDir)
        \* putClientInTile stands outside the try block
        r == IF failedActive
             THEN RunCalls(s.engine,
                           <<Call("addClient", client, NoTile, NoDir),
                             Call("buildLayout", NoClient, NoTile, NoDir)>>,
                           failAt, TilesUsed(s), <<>>)
             ELSE RunCalls(EnginePutClientInTile(s.engine, client, tile, NoDir),
                           <<Call("buildLayout", NoClient, NoTile, NoDir)>>,
                           failAt, TilesUsed(s), <<put>>)
    IN  IF BiHas(s.clients, window) THEN Did(s, "addWindow", <<>>, FALSE)
        ELSE IF ~failedActive /\ CallThrows(s.engine, put, failAt = 1)
             THEN Did(s1, "addWindow", <<put>>, TRUE)
        ELSE Did([s1 EXCEPT !.engine = r.engine], "addWindow", r.calls, FALSE)

\* faulty variant of RemoveWindowFn: a window without Client is handled
\* like any other
RemoveWindowFnNoGuard(s, window, failAt) ==
    LET client == BiGet(s.clients, window, NoClient)
        r == RunCalls(s.engine,
                      <<Call("removeClient", client, NoTile, NoDir),
                        Call("buildLayout", NoClient, NoTile, NoDir)>>,
                      failAt, TilesUsed(s), <<>>)
    IN  Did([s EXCEPT !.clients = BiDelete(@, window),
                      !.untiledWindows = Append(@, window),
                      !.engine = r.engine],
            "removeWindow", r.calls, FALSE)

\* faulty variant of RemoveWindowFn: the window is not put on untiledWindows
RemoveWindowFnNoPush(s, window, failAt) ==
    LET client == BiGet(s.clients, window, NoClient)
        r == RunCalls(s.engine,
                      <<Call("removeClient", client, NoTile, NoDir),
                        Call("buildLayout", NoClient, NoTile, NoDir)>>,
                      failAt, TilesUsed(s), <<>>)
    IN  IF client = NoClient THEN Did(s, "removeWindow", <<>>, FALSE)
        ELSE Did([s EXCEPT !.clients = BiDelete(@, window), !.engine = r.engine],
                 "removeWindow", r.calls, FALSE)

RemoveWindowFn(s, window, failAt) ==
    LET client == BiGet(s.clients, window, NoClient)
        r == RunCalls(s.engine,
                      <<Call("removeClient", client, NoTile, NoDir),
                        Call("buildLayout", NoClient, NoTile, NoDir)>>,
                      failAt, TilesUsed(s), <<>>)
    IN  IF client = NoClient THEN Did(s, "removeWindow", <<>>, FALSE)
        ELSE Did([s EXCEPT !.clients = BiDelete(@, window),
                           !.untiledWindows = Append(@, window),
                           !.engine = r.engine],
                 "removeWindow", r.calls, FALSE)

\* DirectionTools.rotateCw(): a quarter turn clockwise
RotateCw(direction) ==
    CASE direction = "Above" -> "Right"
      [] direction = "Right" -> "Below"
      [] direction = "Below" -> "Left"
      [] direction = "Left"  -> "Above"

\* faulty variant of RotatedDirection: the engine's capability is not asked
RotatedDirectionAlways(eng, direction) ==
    IF direction # NoDir /\ eng.config.rotateLayout
    THEN RotateCw(direction)
    ELSE direction

\* the direction putWindowInTile hands to the engine
RotatedDirection(eng, direction) ==
    IF /\ direction # NoDir
       /\ eng.config.rotateLayout
       /\ HasCapability(eng, "TranslateRotation")
    THEN RotateCw(direction)
    ELSE direction

\* faulty variant of PutWindowInTileFn: the window is made a Client before
\* the live tile is looked up
PutWindowInTileFnClientFirst(s, window, kwinTile, direction, failAt) ==
    LET tile == BiGet(s.tiles, kwinTile, NoTile)
        clients1 == IF ~BiHas(s.clients, window)
                    THEN BiSet(s.clients, window, Fresh(ClientsUsed(s), 1))
                    ELSE s.clients
        client == BiGet(clients1, window, NoClient)
        r == RunCalls(s.engine,
                      <<Call("putClientInTile", client, tile,
                             RotatedDirection(s.engine, direction)),
                        Call("buildLayout", NoClient, NoTile, NoDir)>>,
                      failAt, TilesUsed(s), <<>>)
    IN  IF tile = NoTile
        THEN Did([s EXCEPT !.clients = clients1], "putWindowInTile", <<>>, FALSE)
        ELSE Did([s EXCEPT !.clients = clients1, !.engine = r.engine],
                 "putWindowInTile", r.calls, FALSE)

PutWindowInTileFn(s, window, kwinTile, direction, failAt) ==
    LET tile == BiGet(s.tiles, kwinTile, NoTile)
        clients1 == IF ~BiHas(s.clients, window)
                    THEN BiSet(s.clients, window, Fresh(ClientsUsed(s), 1))
                    ELSE s.clients
        client == BiGet(clients1, window, NoClient)
        r == RunCalls(s.engine,
                      <<Call("putClientInTile", client, tile,
                             RotatedDirection(s.engine, direction)),
                        Call("buildLayout", NoClient, NoTile, NoDir)>>,
                      failAt, TilesUsed(s), <<>>)
    IN  IF tile = NoTile THEN Did(s, "putWindowInTile", <<>>, FALSE)
        ELSE Did([s EXCEPT !.clients = clients1, !.engine = r.engine],
                 "putWindowInTile", r.calls, FALSE)

\* switchEngine: every tracked Client is added to the new engine
SwitchEngineFn(s, engine, failAt) ==
    LET adds == [i \in 1 .. Len(s.clients) |->
                    Call("addClient", s.clients[i][2], NoTile, NoDir)]
        r == RunCalls(engine,
                      adds \o <<Call("buildLayout", NoClient, NoTile, NoDir)>>,
                      failAt, TilesUsed(s), <<>>)
    IN  Did([s EXCEPT !.engine = r.engine], "switchEngine", r.calls, FALSE)

\* abstract Tile.remove(): the Tile and its subtree leave the engine's tree
RECURSIVE ADescendants(_, _)
ADescendants(nodes, t) ==
    {t} \cup UNION {ADescendants(nodes, nodes[t].tiles[i]) : i \in 1 .. Len(nodes[t].tiles)}

ARemove(nodes, t) ==
    LET gone == ADescendants(nodes, t)
        p == nodes[t].parent
    IN  [x \in DOMAIN nodes \ gone |->
            IF x = p THEN [nodes[x] EXCEPT !.tiles = Without(@, t)] ELSE nodes[x]]

\* abstract Tile.addChild(): a new empty Tile appended to the children
AAddChild(nodes, t, new) ==
    [x \in DOMAIN nodes \cup {new} |->
        IF x = new THEN ATile(t, nodes[t].layoutDirection, NoClient, <<>>)
        ELSE IF x = t THEN [nodes[t] EXCEPT !.tiles = Append(@, new)]
        ELSE nodes[x]]

\* for (const child of tile.tiles): children without live tile are removed.
\* The loop goes by position over the array it shrinks, so the child that
\* moves into the place of a removed one is passed over.
RECURSIVE DestroyChildren(_, _, _)
DestroyChildren(s, tile, i) ==
    LET kids == s.engine.nodes[tile].tiles
    IN  IF i > Len(kids) THEN s
        ELSE IF BiInvGet(s.tiles, kids[i], NoKTile) = NoKTile
             THEN DestroyChildren([s EXCEPT !.engine.nodes = ARemove(@, kids[i])],
                                  tile, i + 1)
             ELSE DestroyChildren(s, tile, i + 1)

\* for (const child of kwinTile.tiles): unregistered live children get a new
\* abstract child of `tile`.  A registered Tile that has left the engine's
\* tree is an object only the tile-map refers to: its new child is
\* registered all the same, what is written to the Tile itself is not part
\* of the state.
RECURSIVE CreateChildren(_, _, _, _)
CreateChildren(s, tile, kwinTile, i) ==
    LET kids == s.kwinTiles[kwinTile].tiles
        new == Fresh(TilesUsed(s) \cup DOMAIN s.engine.nodes, 1)
        nodes1 == IF tile \in DOMAIN s.engine.nodes
                  THEN AAddChild(s.engine.nodes, tile, new)
                  ELSE s.engine.nodes
    IN  IF i > Len(kids) THEN s
        ELSE IF ~BiHas(s.tiles, kids[i])
             THEN CreateChildren(
                    [s EXCEPT !.engine.nodes = nodes1,
                              !.tiles = BiSet(@, kids[i], new)],
                    tile, kwinTile, i + 1)
             ELSE CreateChildren(s, tile, kwinTile, i + 1)

\* the breadth-first walk of the live tree; a live tile that is not
\* registered is passed over together with its subtree
RECURSIVE RegenerateWalk(_, _)
RegenerateWalk(s, queue) ==
    IF queue = <<>> THEN s
    ELSE LET kwinTile == Head(queue)
             k == s.kwinTiles[kwinTile]
             tile == BiGet(s.tiles, kwinTile, NoTile)
             inTree == tile \in DOMAIN s.engine.nodes
             s1 == IF inTree
                   THEN [s EXCEPT !.engine.nodes[tile].requestedSize = <<k.w, k.h>>]
                   ELSE s
             s2 == IF HasCapability(s.engine, "TilesMutable")
                   THEN CreateChildren(
                            IF inTree THEN DestroyChildren(s1, tile, 1) ELSE s1,
                            tile, kwinTile, 1)
                   ELSE s1
         IN  IF tile = NoTile THEN RegenerateWalk(s, Tail(queue))
             ELSE RegenerateWalk(s2, Tail(queue) \o k.tiles)

RegenerateLayoutFn(s, failAt) ==
    LET s1 == RegenerateWalk(s, <<RootKTile>>)
        r == RunCalls(s1.engine,
                      <<Call("regenerateLayout", NoClient, NoTile, NoDir),
                        Call("buildLayout", NoClient, NoTile, NoDir)>>,
                      failAt, TilesUsed(s1), <<>>)
    IN  Did([s1 EXCEPT !.engine = r.engine], "regenerateLayout", r.calls, FALSE)

\* ------------------------------------- buildLayout re-entered ----
\* kwinTile.split() raises the live tile's layoutModified signal; when the
\* host delivers it synchronously, regenerateLayout runs inside the split
\* loop of buildLayout.  The Tile objects buildLayout took from the engine
\* stay what its queue and its loop refer to: engine.nodes keeps them next to
\* the Tiles of the tree the engine builds anew.
ReenterMerge(walked, eng) ==
    [walked EXCEPT !.engine =
        [eng EXCEPT !.nodes =
            [t \in DOMAIN eng.nodes \cup DOMAIN walked.engine.nodes |->
                IF t \in DOMAIN eng.nodes THEN eng.nodes[t]
                ELSE walked.engine.nodes[t]]]]

\* (values bound by a quantifier are worked out once)
ReenterRegenerate(s) ==
    CHOOSE r \in UNION {
        {ReenterMerge(walked, eng) :
            eng \in {EngineBuildLayout(walked.engine,
                                       TilesUsed(walked) \cup DOMAIN walked.engine.nodes)}} :
        walked \in {RegenerateWalk(s, <<RootKTile>>)}} : TRUE

\* round i of the split loop up to the split: the split, re-entered
ReenteredSplit(s, tile, kwinTile, i) ==
    CHOOSE r \in
        {IF target # NoKTile
         THEN ReenterRegenerate(
                [s EXCEPT !.kwinTiles =
                    KSplit(@, KTilesUsed(s), target, s.engine.nodes[tile].layoutDirection)])
         ELSE s : target \in {SplitTarget(s.kwinTiles, kwinTile, i)}} : TRUE

\* the rest of round i: the size of child i - 1, the registration of
\* kwinTile.tiles[i] for tile.tiles[i] as it is read now (undefined: NoTile)
ReenteredRound(s, enq, tile, kwinTile, i, tilesLen) ==
    LET kt == IF i > 0 THEN EvenSize(s.kwinTiles, kwinTile, i, tilesLen)
              ELSE s.kwinTiles
        kids == s.engine.nodes[tile].tiles
        child == IF i + 1 <= Len(kids) THEN kids[i + 1] ELSE NoTile
    IN  [st |-> [s EXCEPT !.kwinTiles = kt,
                          !.tiles = BiSet(@, s.kwinTiles[kwinTile].tiles[i + 1], child)],
         enq |-> Append(enq, child)]

\* rounds i .. tilesLen - 1 of the split loop, each split re-entered.
\* w.st is the state, w.enq what the rounds have put on the queue.
RECURSIVE ReenteredSplitChildren(_, _, _, _, _)
ReenteredSplitChildren(w, tile, kwinTile, i, tilesLen) ==
    IF i >= tilesLen THEN w
    ELSE CHOOSE r \in
            {ReenteredSplitChildren(next, tile, kwinTile, i + 1, tilesLen) :
                next \in UNION {
                    {ReenteredRound(s1, w0.enq, tile, kwinTile, i, tilesLen) :
                        s1 \in {ReenteredSplit(w0.st, tile, kwinTile, i)}} :
                    w0 \in {w}}} : TRUE

\* the walk of buildLayout with re-entered splits; an undefined Tile taken
\* from the queue raises a TypeError that leaves buildLayout
RECURSIVE ReenteredWalkQueue(_, _)
ReenteredWalkQueue(s, queue) ==
    IF queue = <<>> THEN s
    ELSE IF Head(queue) = NoTile THEN [s EXCEPT !.thrown = TRUE]
    ELSE LET tile == Head(queue)
             node == s.engine.nodes[tile]
             kwinTile == BiInvGet(s.tiles, tile, NoKTile)
             tilesLen == Len(node.tiles)
             s1 == [s EXCEPT !.kwinTiles[kwinTile].layoutDirection = node.layoutDirection]
             w2 == IF tilesLen > 1
                   THEN ReenteredSplitChildren([st |-> s1, enq |-> <<>>],
                                               tile, kwinTile, 0, tilesLen)
                   ELSE IF tilesLen = 1
                        THEN [st |-> [s1 EXCEPT !.tiles = BiSet(@, kwinTile, node.tiles[1])],
                              enq |-> node.tiles]
                   ELSE [st |-> s1, enq |-> <<>>]
             window == BiInvGet(s.clients, node.client, NoWindow)
         IN  IF kwinTile = NoKTile THEN [s EXCEPT !.thrown = TRUE]
             ELSE \* (the binding keeps the rounds from being worked out twice)
                  CHOOSE r \in
                    {IF node.client # NoClient
                     THEN IF window = NoWindow THEN w.st
                          ELSE ReenteredWalkQueue(PlaceWindow(w.st, window, kwinTile),
                                                  Tail(queue) \o w.enq)
                     ELSE ReenteredWalkQueue(w.st, Tail(queue) \o w.enq) :
                        w \in {w2}} : TRUE

\* buildLayout with every split re-entered by regenerateLayout
ReenteredBuildLayoutFn(s) ==
    LET s0 == [s EXCEPT !.kwinTiles = ClearRoot(@),
                        !.tiles = BiEmpty,
                        !.untiledWindows =
                            UntiledWindowsOf(s.clients, s.engine.untiledClients)]
        realRootTile == RealRootTile(s.engine.nodes, s.engine.rootTile)
        r == IF TakesMaximizeSingle(s)
             THEN MaximizeSingle(s0, realRootTile)
             ELSE ReenteredWalkQueue(
                    [s0 EXCEPT !.tiles = BiSet(@, RootKTile, realRootTile),
                               !.thrown = FALSE],
                    <<realRootTile>>)
    IN  Did(r, "buildLayout", <<>>, r.thrown)

\* ------------------------------------------------------------- state ----
VARIABLES
    clients,          \* BiMap<Kwin.Window, Client>
    tiles,            \* BiMap<Kwin.Tile, Tile>
    untiledWindows,   \* Kwin.Window[]
    engine,           \* the active TilingEngine
    kwinTiles,        \* the live tiles of the screen, by identifier
    windows,          \* the live windows
    probe             \* the insert shortcut's probe: what it read of the
                      \* active window and what it made of it

driverVars == <<clients, tiles, untiledWindows, engine, kwinTiles, windows>>

vars == <<clients, tiles, untiledWindows, engine, kwinTiles, windows, probe>>

InsertionPoints == {"Default", "Active"}

\* the state as the record the operations work on.  The active window and
\* the two settings are read anew by each operation that uses them: the
\* actions below draw them as inputs.
Cur ==
    [clients |-> clients, tiles |-> tiles, untiledWindows |-> untiledWindows,
     engine |-> engine, kwinTiles |-> kwinTiles, windows |-> windows,
     activeWindow |-> NoWindow, maximizeSingle |-> FALSE,
     insertionPoint |-> "Default",
     lastOp |-> "", calls |-> <<>>, thrown |-> FALSE]

\* the state with the inputs an operation reads
With(s, activeWindow, insertionPoint, maximize) ==
    [s EXCEPT !.activeWindow = activeWindow, !.insertionPoint = insertionPoint,
              !.maximizeSingle = maximize]

\* States are kept up to the names of objects: abstract Tiles (from 1) and
\* live tiles (from 0) are numbered breadth-first from their roots, and
\* those only the tile-map refers to downwards from -2 and -3; the Client
\* of window w is numbered w, those only the engine holds from
\* NumWindows + 1.
RECURSIVE BreadthFirst(_, _)
BreadthFirst(tree, queue) ==
    IF queue = <<>> THEN <<>>
    ELSE <<Head(queue)>> \o BreadthFirst(tree, Tail(queue) \o tree[Head(queue)].tiles)

RECURSIVE Uniq(_)
Uniq(seq) ==
    IF seq = <<>> THEN <<>>
    ELSE LET front == Uniq(SubSeq(seq, 1, Len(seq) - 1))
             x == seq[Len(seq)]
         IN  IF x \in SeqToSet(front) THEN front ELSE Append(front, x)

\* a renaming as a function: the i-th of `names` to i - 1 + first as long
\* as it is among the first `inTree`, to -(i - inTree) - 1 + first after
Renaming(names, inTree, first, fixed) ==
    [x \in SeqToSet(names) \cup DOMAIN fixed |->
        IF x \in DOMAIN fixed THEN fixed[x]
        ELSE LET i == IndexOf(names, x)
             IN  IF i <= inTree THEN first + i - 1 ELSE first - 2 - (i - inTree)]

Renamed(s, aTree, kTree, A, K, C) ==
    [s EXCEPT
        !.clients = [i \in 1 .. Len(@) |-> <<@[i][1], C[@[i][2]]>>],
        !.tiles = [i \in 1 .. Len(@) |-> <<K[@[i][1]], A[@[i][2]]>>],
        !.engine = [@ EXCEPT
            !.order = [i \in 1 .. Len(@) |-> C[@[i]]],
            !.untiledClients = [i \in 1 .. Len(@) |-> C[@[i]]],
            !.rootTile = A[@],
            !.nodes = [x \in 1 .. Len(aTree) |->
                [s.engine.nodes[aTree[x]] EXCEPT
                    !.tiles = [i \in 1 .. Len(@) |-> A[@[i]]],
                    !.parent = A[@],
                    !.client = C[@]]]],
        !.kwinTiles = [x \in 0 .. Len(kTree) - 1 |->
            [s.kwinTiles[kTree[x + 1]] EXCEPT
                !.tiles = [i \in 1 .. Len(@) |-> K[@[i]]],
                !.parent = K[@]]],
        !.windows = [w \in Windows |->
            [@[w] EXCEPT !.tile = IF @ \in DOMAIN K THEN K[@] ELSE GoneKTile]]]

\* (a value bound by a quantifier is worked out once)
CanonTrees(s, aTree, kTree) ==
    LET IsStale(c) == c # NoClient /\ c \notin BiValues(s.clients)
    IN  CHOOSE r \in
            {Renamed(s, aTree, kTree, A, K, C) :
                A \in {Renaming(Uniq(aTree \o [i \in 1 .. Len(s.tiles) |-> s.tiles[i][2]]),
                                Len(aTree), 1, NoTile :> NoTile)},
                K \in {Renaming(Uniq(kTree \o [i \in 1 .. Len(s.tiles) |-> s.tiles[i][1]]),
                                Len(kTree), 0, NoKTile :> NoKTile)},
                C \in {Renaming(Uniq(SelectSeq(
                                    s.engine.order
                                        \o [i \in 1 .. Len(aTree) |->
                                                s.engine.nodes[aTree[i]].client]
                                        \o s.engine.untiledClients,
                                    IsStale)),
                                Len(s.engine.order) + Len(aTree)
                                    + Len(s.engine.untiledClients),
                                NumWindows + 1,
                                [c \in BiValues(s.clients) \cup {NoClient} |->
                                    BiInvGet(s.clients, c, NoClient)])}} : TRUE

Canon(s) ==
    CHOOSE r \in
        {CanonTrees(t, aTree, kTree) :
            t \in {s},
            aTree \in {BreadthFirst(s.engine.nodes, <<s.engine.rootTile>>)},
            kTree \in {BreadthFirst(s.kwinTiles, <<RootKTile>>)}} : TRUE

\* the operation left every variable as it was
Unchanged(s) ==
    /\ s.clients = clients
    /\ s.tiles = tiles
    /\ s.untiledWindows = untiledWindows
    /\ s.engine = engine
    /\ s.kwinTiles = kwinTiles
    /\ s.windows = windows

BecomesDriver(s) ==
    \E t \in {s} :
        IF Unchanged(t) THEN UNCHANGED driverVars
        ELSE \E c \in {Canon(t)} :
                /\ clients' = c.clients
                /\ tiles' = c.tiles
                /\ untiledWindows' = c.untiledWindows
                /\ engine' = c.engine
                /\ kwinTiles' = c.kwinTiles
                /\ windows' = c.windows

Becomes(s) == BecomesDriver(s) /\ UNCHANGED probe

\* ------------------------------------------------- ShortcutManager ----
\* bestTileForPosition(x, y): the host's answer is one of the live tiles, the
\* `found`-th in breadth-first order, or null
TileInDirection(kt, found) ==
    LET all == BreadthFirst(kt, <<RootKTile>>)
    IN  IF found \in 1 .. Len(all) THEN all[found] ELSE NoKTile

\* while (tile.tiles.length == 1) tile = tile.tiles[0];
RECURSIVE RootDescent(_, _)
RootDescent(kt, tile) ==
    IF Len(kt[tile].tiles) = 1 THEN RootDescent(kt, kt[tile].tiles[1]) ELSE tile

\* insert(direction) on the active window: removeWindow, rebuildLayout, the
\* tile at the probe point or else the leaf below the live root,
\* putWindowInTile, rebuildLayout.  `direction` is what directionFromPoint
\* makes of the probe point.
InsertFn(s, found, direction) ==
    LET window == s.activeWindow
        s1 == RemoveWindowFn(s, window, 0)
        s2 == BuildLayoutFn(s1)
        hit == TileInDirection(s2.kwinTiles, found)
        tile == IF hit = NoKTile THEN RootDescent(s2.kwinTiles, RootKTile) ELSE hit
        s3 == PutWindowInTileFn(s2, window, tile, direction, 0)
    IN  IF window = NoWindow THEN Did(s, "insert", <<>>, FALSE)
        ELSE IF s.windows[window].tile = NoKTile THEN Did(s, "insert", <<>>, FALSE)
        ELSE Did(BuildLayoutFn(s3), "insert", s3.calls, FALSE)

\* ---- the probe point of the insert shortcut ----
\* Coordinates are the host's numbers; those of a screen are far from the
\* range where adding 1 to one is inexact, so integers stand for them.
GPoint(x, y) == [x |-> x, y |-> y]

NoPoint == [null |-> TRUE]

\* what pointInDirection reads of a window: window.tile, the padding of
\* that tile and window.frameGeometry
ProbedWindow(s, window, frameGeometry, padding) ==
    [tile |-> s.windows[window].tile, padding |-> padding,
     frameGeometry |-> frameGeometry]

PointAbove(window) ==
    IF window.tile = NoKTile THEN NoPoint
    ELSE LET geometry == window.frameGeometry
             coordOffset == 1 + window.padding
         IN  GPoint(geometry.x + 1, geometry.y - coordOffset)

\* faulty variant of PointBelow: the height of the frame is left out
PointBelowNoHeight(window) ==
    IF window.tile = NoKTile THEN NoPoint
    ELSE LET geometry == window.frameGeometry
             coordOffset == 1 + window.padding
         IN  GPoint(geometry.x + 1, geometry.y + coordOffset)

PointBelow(window) ==
    IF window.tile = NoKTile THEN NoPoint
    ELSE LET geometry == window.frameGeometry
             coordOffset == 1 + geometry.height + window.padding
         IN  GPoint(geometry.x + 1, geometry.y + coordOffset)

PointLeft(window) ==
    IF window.tile = NoKTile THEN NoPoint
    ELSE LET geometry == window.frameGeometry
             coordOffset == 1 + window.padding
         IN  GPoint(geometry.x - coordOffset, geometry.y + 1)

PointRight(window) ==
    IF window.tile = NoKTile THEN NoPoint
    ELSE LET geometry == window.frameGeometry
             coordOffset == 1 + geometry.width + window.padding
         IN  GPoint(geometry.x + coordOffset, geometry.y + 1)

PointInDirection(window, direction) ==
    CASE direction = "Above" -> PointAbove(window)
      [] direction = "Below" -> PointBelow(window)
      [] direction = "Left" -> PointLeft(window)
      [] direction = "Right" -> PointRight(window)
      [] OTHER -> NoPoint

\* the calls insert makes on the driver once it has a probe point
InsertCalls == <<"removeWindow", "rebuildLayout", "putWindowInTile", "rebuildLayout">>

\* insert(direction) with its probe: the state it leaves, the probe point
\* and the driver calls it made.  `from` is what directionFromPoint makes
\* of the probe point.
InsertAtPoint(s, frameGeometry, padding, direction, found, from) ==
    LET window == s.activeWindow
        none == [state |-> Did(s, "insert", <<>>, FALSE), point |-> NoPoint,
                 driverCalls |-> <<>>]
    IN  IF window = NoWindow THEN none
        ELSE \* const point = pointInDirection(window, direction);
             CHOOSE r \in
                {IF point = NoPoint THEN none
                 ELSE [state |-> InsertFn(s, found, from), point |-> point,
                       driverCalls |-> InsertCalls] :
                    point \in {PointInDirection(
                        ProbedWindow(s, window, frameGeometry, padding), direction)}} :
                TRUE

\* the settings of rotateLayout the engines of a type are constructed with
Rotations(type) ==
    IF type = "Kwin" THEN {FALSE} ELSE IF type = "Half" THEN BOOLEAN ELSE {TRUE}

\* no shortcut has probed
NoProbe == [direction |-> NoDir]

InitDriver ==
    /\ clients = BiEmpty
    /\ tiles = BiEmpty
    /\ untiledWindows = <<>>
    /\ \E type \in EngineTypes : \E rot \in Rotations(type) :
            engine = NewEngine(type, rot, {})
    /\ kwinTiles = InitKwinTiles
    /\ windows = [w \in Windows |-> InitWindow]

Init == InitDriver /\ probe = NoProbe

\* Clients the engine holds although no window maps to them
StaleClients(s) == SeqToSet(s.engine.order) \ BiValues(s.clients)

\* which engine call is made to fail: none or the first of the try block
FailChoices == 0 .. 1

AddWindow(window) ==
    \E active \in Windows \cup {NoWindow}, ip \in InsertionPoints,
       failAt \in FailChoices :
        /\ ip = "Default" => active = NoWindow
        /\ Becomes(AddWindowFn(With(Cur, active, ip, FALSE), window, failAt))

RemoveWindow(window) ==
    /\ Len(untiledWindows) < MaxUntiled
    /\ \E failAt \in FailChoices :
        /\ failAt = 1 => Cardinality(StaleClients(Cur)) < MaxStale
        /\ Becomes(RemoveWindowFn(Cur, window, failAt))

PutWindowInTile(window, kwinTile, direction) ==
    \E failAt \in FailChoices :
        Becomes(PutWindowInTileFn(Cur, window, kwinTile, direction, failAt))

BuildLayout ==
    \E maximize \in BOOLEAN :
        Becomes(BuildLayoutFn(With(Cur, NoWindow, "Default", maximize)))

RegenerateLayout ==
    \E failAt \in FailChoices : Becomes(RegenerateLayoutFn(Cur, failAt))

SwitchEngine(type, rotateLayout) ==
    /\ <<type, rotateLayout>> # <<engine.type, engine.config.rotateLayout>>
    /\ \E failAt \in FailChoices :
        Becomes(SwitchEngineFn(Cur, NewEngine(type, rotateLayout, BiValues(tiles)),
                               failAt))

\* the insert shortcut on the active window; the host's answer to the probe
\* is the root or none
FoundChoices == 0 .. 1

Insert(window) ==
    \E found \in FoundChoices, direction \in {"Below"}, maximize \in BOOLEAN :
        Becomes(InsertFn(With(Cur, window, "Default", maximize), found, direction))

\* the directions putWindowInTile is given: the engine treats Left as
\* Above and Right as Below
PutDirections == {NoDir, "Above", "Below"}

Next ==
    \/ \E w \in Windows : AddWindow(w)
    \/ \E w \in Windows : RemoveWindow(w)
    \/ \E w \in Windows, kt \in DOMAIN kwinTiles \cup BiKeys(tiles),
          d \in PutDirections : PutWindowInTile(w, kt, d)
    \/ BuildLayout
    \/ RegenerateLayout
    \/ \E w \in Windows : Insert(w)
    \/ \E type \in EngineTypes : \E rot \in Rotations(type) : SwitchEngine(type, rot)

Spec == Init /\ [][Next]_vars

\* ---- the live tree changed by the user ----
\* The user edits the live tree in the host's tile editor; the host's
\* layoutModified signal runs regenerateLayout at once.  The engine's calls
\* succeed here.  Edits are bounded: by the number of live tiles, by the
\* extent of the tile that is split, and to trees none of whose tiles the
\* user removed since the last buildLayout.
MaxKwinTiles == 5
MaxDenominator == 3

NoneRemoved == BiKeys(tiles) \subseteq DOMAIN kwinTiles

HostSplitFn(s, kwinTile, direction) ==
    [s EXCEPT !.kwinTiles = KSplit(@, KTilesUsed(s), kwinTile, direction)]

HostRemoveFn(s, kwinTile) == [s EXCEPT !.kwinTiles = KRemove(@, kwinTile)]

\* the user splits a live tile that has no children
HostSplit(kwinTile, direction) ==
    /\ kwinTiles[kwinTile].tiles = <<>>
    /\ Cardinality(DOMAIN kwinTiles) + 2 <= MaxKwinTiles
    /\ kwinTiles[kwinTile].w[2] <= MaxDenominator
    /\ kwinTiles[kwinTile].h[2] <= MaxDenominator
    /\ NoneRemoved
    /\ Becomes(RegenerateLayoutFn(HostSplitFn(Cur, kwinTile, direction), 0))

\* the user removes a live tile
HostRemove(kwinTile) ==
    /\ kwinTile # RootKTile
    /\ NoneRemoved
    /\ Becomes(RegenerateLayoutFn(HostRemoveFn(Cur, kwinTile), 0))

\* buildLayout while the host delivers layoutModified synchronously
ReenteredBuildLayout ==
    \E maximize \in BOOLEAN :
        Becomes(ReenteredBuildLayoutFn(With(Cur, NoWindow, "Default", maximize)))

NextHost ==
    \/ \E w \in Windows : AddWindow(w)
    \/ BuildLayout
    \/ ReenteredBuildLayout
    \/ \E kt \in DOMAIN kwinTiles, d \in {Horizontal, Vertical} : HostSplit(kt, d)
    \/ \E kt \in DOMAIN kwinTiles : HostRemove(kt)

SpecHost == Init /\ [][NextHost]_vars

\* ---- the insert shortcut with its probe ----
\* The frame of the active window and the padding of its tile are the
\* host's: they are drawn when the script starts.
MaxCoord == 2
MaxExtent == 3
MaxPadding == 2

Coords == {-1, MaxCoord}
Extents == {1, MaxExtent}
Paddings == {0, MaxPadding}

Frames == [x : Coords, y : Coords, width : Extents, height : Extents]

InitProbe ==
    /\ InitDriver
    /\ \E frameGeometry \in Frames, padding \in Paddings :
        probe = [frameGeometry |-> frameGeometry, padding |-> padding,
                 direction |-> NoDir, point |-> NoPoint, driverCalls |-> <<>>]

InsertProbe(window, direction) ==
    \E found \in FoundChoices, from \in {"Below"}, maximize \in BOOLEAN :
        \E r \in {InsertAtPoint(With(Cur, window, "Default", maximize),
                                probe.frameGeometry, probe.padding,
                                direction, found, from)} :
            /\ BecomesDriver(r.state)
            /\ probe' = [probe EXCEPT !.direction = direction, !.point = r.point,
                                      !.driverCalls = r.driverCalls]

NextProbe ==
    \/ \E w \in Windows : AddWindow(w)
    \/ BuildLayout
    \/ \E w \in Windows, d \in Directions : InsertProbe(w, d)

SpecProbe == InitProbe /\ [][NextProbe]_vars

\* ======================================================== properties ====
\* what buildLayout makes of the current state under either setting of
\* maximizeSingle
Built(maximize) == BuildLayoutFn(With(Cur, NoWindow, "Default", maximize))

Tracked(s) == BiKeys(s.clients)

\* window.tile is a live tile registered in the tile-map
Assigned(s, w) ==
    /\ s.windows[w].tile \in DOMAIN s.kwinTiles
    /\ BiHas(s.tiles, s.windows[w].tile)

Untracked(s, w) == w \in SeqToSet(s.untiledWindows)

\* the Client occupies a Tile of the engine's tree
Occupies(eng, client) == \E t \in DOMAIN eng.nodes : eng.nodes[t].client = client

\* every occupant of the engine's tree is the Client of a tracked window
OccupantsTracked(s) ==
    \A t \in DOMAIN s.engine.nodes :
        s.engine.nodes[t].client # NoClient
            => s.engine.nodes[t].client \in BiValues(s.clients)

\* ---- C1 ----
\* C1 as stated: after buildLayout every window in the client-map is either
\* assigned to a live tile registered in the tile-map or in the untracked
\* list, never both and never neither.
C1_ExactlyOnePlacement ==
    \A maximize \in BOOLEAN : \A r \in {Built(maximize)} :
        \A w \in Tracked(r) : Assigned(r, w) # Untracked(r, w)

\* C1, amended: after a buildLayout that does not take the maximize-single
\* shortcut and meets no occupant without window, every tracked window
\* whose Client occupies a Tile of the engine's tree is assigned to a live
\* tile registered in the tile-map and is not in the untracked list, and
\* every tracked window whose Client the engine lists as untiled is in
\* the untracked list.
C1_PlacedOrUntracked ==
    \A maximize \in BOOLEAN : \A r \in {Built(maximize)} :
        (~TakesMaximizeSingle(r) /\ OccupantsTracked(r)) =>
            \A w \in Tracked(r) :
                LET client == BiGet(r.clients, w, NoClient)
                IN  /\ Occupies(r.engine, client)
                        => Assigned(r, w) /\ ~Untracked(r, w)
                    /\ client \in SeqToSet(r.engine.untiledClients)
                        => Untracked(r, w)

\* a tracked window on a registered live tile next to a tracked window the
\* engine found no room for, before and after buildLayout
C1_Witness ==
    \E r \in {Built(FALSE)} : \E w1, w2 \in Tracked(r) :
        /\ OccupantsTracked(r)
        /\ Occupies(r.engine, BiGet(r.clients, w1, NoClient))
        /\ BiGet(r.clients, w2, NoClient) \in SeqToSet(r.engine.untiledClients)
        /\ Assigned(r, w1) /\ Untracked(r, w2)
        /\ Assigned(Cur, w1) /\ Untracked(Cur, w2)


\* the engine call of a try block that is made to fail, in the properties:
\* none, the first or the second
FailAll == 0 .. 2

\* ---- C2 ----
\* C2 as stated: in every state a driver operation leaves, no window is both
\* a key of the client-map and an element of the untracked list.
C2_NeverTrackedAndListed ==
    \A w \in Windows : ~(w \in Tracked(Cur) /\ Untracked(Cur, w))

\* C2, amended: buildLayout leaves in the untracked list only keys of the
\* client-map, those whose Client the engine lists as untiled and that
\* occupy no Tile of the engine's tree; removeWindow of a tracked window
\* leaves it in the untracked list and out of the client-map.
C2_ListedAfterBuildAndRemove ==
    /\ \A maximize \in BOOLEAN : \A r \in {Built(maximize)} :
        \A w \in SeqToSet(r.untiledWindows) :
            /\ w \in Tracked(r)
            /\ BiGet(r.clients, w, NoClient) \in SeqToSet(r.engine.untiledClients)
            /\ ~Occupies(r.engine, BiGet(r.clients, w, NoClient))
    /\ \A w \in Tracked(Cur), failAt \in FailAll :
        \A r \in {RemoveWindowFn(Cur, w, failAt)} :
            w \notin Tracked(r) /\ Untracked(r, w)

\* buildLayout has listed a tracked window the engine has no room for, next
\* to a tracked window on a tile
C2_Witness ==
    \E w1, w2 \in Tracked(Cur) :
        /\ Untracked(Cur, w1) /\ ~Untracked(Cur, w2)
        /\ BiGet(clients, w1, NoClient) \in SeqToSet(engine.untiledClients)
        /\ Assigned(Cur, w2)
        /\ Built(FALSE).untiledWindows = <<w1>>

\* ---- C3 ----
\* the driver's maps and the host's tiles and windows, with the live tiles
\* named by their place in the tree
Layout(s) ==
    LET c == Canon(s)
    IN  <<c.kwinTiles, c.tiles, c.untiledWindows, c.windows, c.clients>>

\* C3: buildLayout called a second time, nothing else having changed, leaves
\* the live tree, the tile-map (up to the identity of the live tiles it
\* makes anew), the untracked list and the windows' tiles as the first call
\* left them.
C3_BuildLayoutIdempotent ==
    \A maximize \in BOOLEAN : \A once \in {Built(maximize)} :
        Layout(BuildLayoutFn(once)) = Layout(once)

\* buildLayout has made a live tree of at least two tiles under the root
\* with a window on one of them, and calling it again changes nothing
C3_Witness ==
    /\ Len(kwinTiles[RootKTile].tiles) >= 2
    /\ \E w \in Tracked(Cur) : Assigned(Cur, w) /\ windows[w].tile # RootKTile
    /\ Layout(Built(FALSE)) = Layout(Cur)

\* ---- C4 ----
\* C4: addWindow(w) of a window that is not tracked followed at once by
\* removeWindow(w) leaves the tile-map and the client-map as they were (and
\* the host's tiles and windows); the untracked list has gained w.
C4_AddRemoveRoundTrip ==
    \A w \in Windows \ Tracked(Cur), active \in Windows \cup {NoWindow},
       ip \in InsertionPoints, f1 \in FailAll, f2 \in FailAll :
        \A r \in {RemoveWindowFn(AddWindowFn(With(Cur, active, ip, FALSE), w, f1),
                                 w, f2)} :
            /\ r.tiles = tiles
            /\ r.clients = clients
            /\ r.untiledWindows = Append(untiledWindows, w)
            /\ r.kwinTiles = kwinTiles
            /\ r.windows = windows

\* a window that is not tracked beside a tracked one on a registered tile:
\* added next to the active window and removed again, the engine called
\* both times
C4_Witness ==
    \E w \in Windows \ Tracked(Cur), active \in Tracked(Cur) :
        /\ ActiveTile(With(Cur, active, "Active", FALSE)) # NoTile
        /\ \E a \in {AddWindowFn(With(Cur, active, "Active", FALSE), w, 0)} :
            /\ Len(a.calls) = 2 /\ BiHas(a.clients, w)
            /\ Len(RemoveWindowFn(a, w, 0).calls) = 2

\* ---- C5 ----
\* the placement request putWindowInTile hands to the engine
PutRequest(s, window, kwinTile, direction) ==
    PutWindowInTileFn(s, window, kwinTile, direction, 0).calls[1]

RotateLayoutSet(s, on) == [s EXCEPT !.engine.config.rotateLayout = on]

\* C5: on a registered live tile of an engine with the TranslateRotation
\* capability, putWindowInTile with direction D and rotateLayout set hands
\* the engine the request (Client, Tile, direction) that rotateCw(D) gives
\* with rotateLayout off; with rotateLayout off, without the capability, or
\* without direction the direction reaches the engine as it was given.
C5_RotationLaw ==
    \A w \in Windows, kt \in BiKeys(tiles) :
        /\ \A d \in Directions :
            HasCapability(engine, "TranslateRotation") =>
                PutRequest(RotateLayoutSet(Cur, TRUE), w, kt, d)
                    = PutRequest(RotateLayoutSet(Cur, FALSE), w, kt, RotateCw(d))
        /\ \A d \in Directions \cup {NoDir} :
            \/ /\ d # NoDir
               /\ engine.config.rotateLayout
               /\ HasCapability(engine, "TranslateRotation")
            \/ PutRequest(Cur, w, kt, d) =
                    Call("putClientInTile",
                         BiGet(PutWindowInTileFn(Cur, w, kt, d, 0).clients, w, NoClient),
                         BiGet(tiles, kt, NoTile), d)

\* rotateLayout set on an engine with the capability: a window is put above
\* the occupant of a registered live tile and the engine is asked for Right
C5_Witness ==
    /\ engine.config.rotateLayout
    /\ HasCapability(engine, "TranslateRotation")
    /\ \E w \in Windows, kt \in BiKeys(tiles) :
        /\ BiGet(tiles, kt, NoTile) \in DOMAIN engine.nodes
        /\ engine.nodes[BiGet(tiles, kt, NoTile)].client # NoClient
        /\ PutRequest(Cur, w, kt, "Above").dir = "Right"
        /\ Len(PutWindowInTileFn(Cur, w, kt, "Above", 0).calls) = 2

\* ---- C6 ----
\* the engine's tree is a chain of single-child Tiles without occupant
\* from the root down to a leaf the Client occupies
OnlyLeafBelowWrappers(eng, client) ==
    \E leaf \in DOMAIN eng.nodes :
        /\ eng.nodes[leaf].client = client
        /\ eng.nodes[leaf].tiles = <<>>
        /\ \A t \in DOMAIN eng.nodes \ {leaf} :
            eng.nodes[t].client = NoClient /\ Len(eng.nodes[t].tiles) = 1

\* C6: with maximizeSingle set and exactly one window tracked, its Client
\* on the leaf the engine's root leads to through single-child tiles without
\* occupant, buildLayout leaves the live root without child tiles and the
\* window without tile and maximized.
C6_MaximizeSingle ==
    \A r \in {Built(TRUE)} : \A w \in Tracked(Cur) :
        (/\ Tracked(Cur) = {w}
         /\ OnlyLeafBelowWrappers(engine, BiGet(clients, w, NoClient)))
        => /\ r.kwinTiles[RootKTile].tiles = <<>>
           /\ r.windows[w].tile = NoKTile
           /\ r.windows[w].maximized

\* the single tracked window, below two wrappers of the engine's tree and
\* on a tile of a live tree with children: buildLayout maximizes it
C6_Witness ==
    \E w \in Windows :
        /\ Tracked(Cur) = {w}
        /\ Len(engine.nodes[engine.rootTile].tiles) = 1
        /\ OnlyLeafBelowWrappers(engine, BiGet(clients, w, NoClient))
        /\ kwinTiles[RootKTile].tiles # <<>>
        /\ windows[w].tile # NoKTile /\ ~windows[w].maximized
        /\ Built(TRUE).windows[w].maximized

\* ---- C7 ----
\* the Tiles buildLayout takes from its queue, in order: the walk ends with
\* the first whose occupant has no window
RECURSIVE WalkOrder(_, _)
WalkOrder(s, queue) ==
    IF queue = <<>> THEN <<>>
    ELSE LET node == s.engine.nodes[Head(queue)]
         IN  IF /\ node.client # NoClient
                /\ BiInvGet(s.clients, node.client, NoWindow) = NoWindow
             THEN <<Head(queue)>>
             ELSE <<Head(queue)>> \o WalkOrder(s, Tail(queue) \o node.tiles)

\* the Tiles a buildLayout of s works on (none when it maximizes)
Processed(s) ==
    IF TakesMaximizeSingle(s) THEN {}
    ELSE SeqToSet(WalkOrder(s, <<RealRootTile(s.engine.nodes, s.engine.rootTile)>>))

\* the Tile a live tile ends up registered for: a worked-on Tile with a
\* single child hands its live tile on to the child
RECURSIVE HandedOn(_, _)
HandedOn(s, tile) ==
    IF tile \in Processed(s) /\ Len(s.engine.nodes[tile].tiles) = 1
    THEN HandedOn(s, s.engine.nodes[tile].tiles[1])
    ELSE tile

\* the live children of the live tile of `tile` are as many as its
\* children, the i-th registered for of[i-th child]
ChildrenMatch(r, tile, of) ==
    LET kids == r.engine.nodes[tile].tiles
        kwinTile == BiInvGet(r.tiles, tile, NoKTile)
    IN  /\ kwinTile \in DOMAIN r.kwinTiles
        /\ Len(r.kwinTiles[kwinTile].tiles) = Len(kids)
        /\ \A i \in 1 .. Len(kids) :
            BiGet(r.tiles, r.kwinTiles[kwinTile].tiles[i], NoTile) = of[kids[i]]

\* C7 as stated: when buildLayout returns, the live tile of every Tile with
\* n > 1 children it has worked on has n live children, the i-th registered
\* in the tile-map for the i-th child.
C7_ChildrenByPosition ==
    \A maximize \in BOOLEAN : \A r \in {Built(maximize)} :
        \A tile \in Processed(r) :
            Len(r.engine.nodes[tile].tiles) > 1 =>
                ChildrenMatch(r, tile, [t \in DOMAIN r.engine.nodes |-> t])

\* C7, amended: when buildLayout returns, the live tile of every Tile with
\* n > 1 children it has worked on has n live children; the i-th is
\* registered for the i-th child or, where that child has a single child
\* itself, for the Tile its live tile was handed on to; and the window of
\* an occupant among those is on that live child.
C7_ChildrenByPositionHandedOn ==
    \A maximize \in BOOLEAN : \A r \in {Built(maximize)} :
        \A tile \in Processed(r) :
            LET to == [t \in DOMAIN r.engine.nodes |-> HandedOn(r, t)]
                kids == r.engine.nodes[tile].tiles
                live == r.kwinTiles[BiInvGet(r.tiles, tile, NoKTile)].tiles
            IN  Len(kids) > 1 =>
                    /\ ChildrenMatch(r, tile, to)
                    /\ \A i \in 1 .. Len(kids) : \A w \in Tracked(r) :
                        (/\ to[kids[i]] \in Processed(r)
                         /\ r.engine.nodes[to[kids[i]]].client
                                = BiGet(r.clients, w, NoClient))
                        => r.windows[w].tile = live[i]

\* two tracked windows, one on each of the two children of the live root,
\* whose Tiles lie below single-child Tiles of the engine's tree
C7_Witness ==
    \E r \in {Built(FALSE)} : \E w1, w2 \in Tracked(r) :
        LET root == r.engine.nodes[r.engine.rootTile]
        IN  /\ Len(root.tiles) = 2
            /\ HandedOn(r, root.tiles[1]) # root.tiles[1]
            /\ Len(r.kwinTiles[RootKTile].tiles) = 2
            /\ r.windows[w1].tile = r.kwinTiles[RootKTile].tiles[1]
            /\ r.windows[w2].tile = r.kwinTiles[RootKTile].tiles[2]
            /\ Len(kwinTiles[RootKTile].tiles) = 2
            /\ windows[w1].tile = kwinTiles[RootKTile].tiles[1]
            /\ windows[w2].tile = kwinTiles[RootKTile].tiles[2]

\* ---- C8 ----
\* the extent of a live tile along the axis of a layout direction
Extent(k, dir) == IF dir = Horizontal THEN k.w ELSE k.h

\* C8 as stated: when buildLayout returns, each of the n live children made
\* for a Tile with n > 1 children has, along the axis of the Tile's layout
\* direction, the n-th part of the extent of the Tile's live tile.
C8_EvenSizes ==
    \A maximize \in BOOLEAN : \A r \in {Built(maximize)} :
        \A tile \in Processed(r) :
            LET node == r.engine.nodes[tile]
                kwinTile == r.kwinTiles[BiInvGet(r.tiles, tile, NoKTile)]
            IN  Len(node.tiles) > 1 =>
                    \A i \in 1 .. Len(kwinTile.tiles) :
                        FracEq(Extent(r.kwinTiles[kwinTile.tiles[i]],
                                      kwinTile.layoutDirection),
                               FracDiv(Extent(kwinTile, kwinTile.layoutDirection),
                                       Len(node.tiles)))

\* ---- C9 ----
\* the driver's maps and list and the host's tiles and windows are as in
\* the current state
Untouched(r) ==
    /\ r.clients = clients
    /\ r.tiles = tiles
    /\ r.untiledWindows = untiledWindows
    /\ r.kwinTiles = kwinTiles
    /\ r.windows = windows
    /\ r.engine = engine

\* C9: putWindowInTile with a live tile that is no key of the tile-map changes
\* nothing and calls the engine not at all, for every window and direction.
C9_PutUnregisteredNoOp ==
    \A w \in Windows, d \in Directions \cup {NoDir}, failAt \in FailAll :
        \A kt \in (DOMAIN kwinTiles \cup {windows[w].tile, GoneKTile}) \ BiKeys(tiles) :
            \A r \in {PutWindowInTileFn(Cur, w, kt, d, failAt)} :
                Untouched(r) /\ r.calls = <<>> /\ ~r.thrown

\* a live tile that is not registered (the root after a maximizing
\* buildLayout), a tracked window and one that is not
C9_Witness ==
    /\ RootKTile \notin BiKeys(tiles)
    /\ \E w \in Tracked(Cur) : windows[w].maximized
    /\ Windows \ Tracked(Cur) # {}
    /\ \A w \in Windows : PutWindowInTileFn(Cur, w, RootKTile, "Left", 0).calls = <<>>

\* ---- C10 ----
\* C10: removeWindow of a window that is no key of the client-map changes
\* nothing and calls neither removeClient nor buildLayout.
C10_RemoveUntrackedNoOp ==
    \A w \in Windows \ Tracked(Cur), failAt \in FailAll :
        \A r \in {RemoveWindowFn(Cur, w, failAt)} :
            Untouched(r) /\ r.calls = <<>> /\ ~r.thrown

\* a window that is not tracked, beside a tracked one on a registered tile
C10_Witness ==
    \E w \in Windows \ Tracked(Cur), other \in Tracked(Cur) :
        /\ Assigned(Cur, other)
        /\ RemoveWindowFn(Cur, w, 0).lastOp = "removeWindow"
        /\ RemoveWindowFn(Cur, w, 0).calls = <<>>
        /\ RemoveWindowFn(Cur, other, 0).calls # <<>>

\* ---- C11 ----
\* C11 as stated: an exception of an engine call never leaves addWindow
\* (with either insertion point), removeWindow, putWindowInTile,
\* regenerateLayout or switchEngine, whichever call of the operation fails,
\* and after addWindow the window is in the client-map.
C11_NoExceptionEscapes ==
    \A w \in Windows, failAt \in FailAll :
        /\ \A active \in Windows \cup {NoWindow}, ip \in InsertionPoints :
            \A r \in {AddWindowFn(With(Cur, active, ip, FALSE), w, failAt)} :
                ~r.thrown /\ BiHas(r.clients, w)
        /\ ~RemoveWindowFn(Cur, w, failAt).thrown
        /\ \A kt \in BiKeys(tiles), d \in Directions \cup {NoDir} :
            ~PutWindowInTileFn(Cur, w, kt, d, failAt).thrown
        /\ ~RegenerateLayoutFn(Cur, failAt).thrown
        /\ \A type \in EngineTypes : \A rot \in Rotations(type) :
            ~SwitchEngineFn(Cur, NewEngine(type, rot, BiValues(tiles)), failAt).thrown

\* ---- C12 ----
\* no key and no value occurs in two pairs of the map
OneToOne(m) ==
    \A i, j \in 1 .. Len(m) : i # j => m[i][1] # m[j][1] /\ m[i][2] # m[j][2]

C13_ClientKept ==
    \A w \in Tracked(Cur) :
        /\ \A active \in Windows \cup {NoWindow}, ip \in InsertionPoints,
              failAt \in FailAll :
            \A r \in {AddWindowFn(With(Cur, active, ip, FALSE), w, failAt)} :
                /\ r.clients = clients /\ r.tiles = tiles
                /\ r.engine = engine /\ r.calls = <<>>
        /\ \A kt \in DOMAIN kwinTiles \cup BiKeys(tiles),
              d \in Directions \cup {NoDir}, failAt \in FailAll :
            \A r \in {PutWindowInTileFn(Cur, w, kt, d, failAt)} :
                /\ r.clients = clients
                /\ r.calls # <<>> =>
                    r.calls[1].client = BiGet(clients, w, NoClient)
        /\ \A maximize \in BOOLEAN : Built(maximize).clients = clients
        /\ \A failAt \in FailAll :
            RegenerateLayoutFn(Cur, failAt).clients = clients
        /\ \A type \in EngineTypes : \A rot \in Rotations(type) :
            \A failAt \in FailAll :
                SwitchEngineFn(Cur, NewEngine(type, rot, BiValues(tiles)),
                               failAt).clients = clients
        /\ \A other \in Windows \ {w}, failAt \in FailAll :
            \A r \in {RemoveWindowFn(Cur, other, failAt)} :
                BiGet(r.clients, w, NoClient) = BiGet(clients, w, NoClient)

\* a tracked window is put into a registered tile of the engine's tree: the
\* engine is handed a Client
C13_Witness ==
    \E w \in Tracked(Cur), kt \in BiKeys(tiles) :
        /\ BiGet(tiles, kt, NoTile) \in DOMAIN engine.nodes
        /\ PutWindowInTileFn(Cur, w, kt, NoDir, 0).calls # <<>>
        /\ Cardinality(Tracked(Cur)) = NumWindows

\* ---- C14 ----
\* every live tile the host may name, and none
FoundAll == 0 .. 5

\* C14 as stated: the insert command on an active tracked window that has
\* a tile ends, whatever maximizeSingle is set to, whichever tile the host
\* finds at the probe point and whatever the direction, with the window in
\* the client-map and its Client held by the engine.
C14_InsertPlacesAgain ==
    \A w \in Tracked(Cur) :
        windows[w].tile \in DOMAIN kwinTiles =>
            \A maximize \in BOOLEAN, found \in FoundAll, d \in Directions :
                \A r \in {InsertFn(With(Cur, w, "Default", maximize), found, d)} :
                    /\ BiHas(r.clients, w)
                    /\ BiGet(r.clients, w, NoClient) \in SeqToSet(r.engine.order)

\* ---- C15 ----
\* C15 as stated: when removeClient fails inside removeWindow of a tracked
\* window, so that the engine keeps the removed Client, the next buildLayout
\* (maximizeSingle off) assigns every tracked window whose Client occupies a
\* leaf of the engine's tree to a live tile registered in the tile-map.
C15_RebuildRepairs ==
    \A w \in Tracked(Cur) :
        \A r \in {BuildLayoutFn(RemoveWindowFn(Cur, w, 1))} :
            \A other \in Tracked(r) :
                Occupies(r.engine, BiGet(r.clients, other, NoClient))
                    => Assigned(r, other)

\* ---- C16 ----
\* every putClientInTile among the calls is given a Tile of the tree of `eng`
PutsInOwnTree(calls, eng) ==
    \A i \in 1 .. Len(calls) :
        calls[i].op = "putClientInTile" => calls[i].tile \in DOMAIN eng.nodes

\* C16 as stated: after switchEngine the tile-map holds no Tile of the
\* previous engine, and an addWindow with insertion at the active window or a
\* putWindowInTile that follows hands putClientInTile a Tile of the active
\* engine's tree.
C16_NoTileOfPreviousEngine ==
    \A type \in EngineTypes : \A rot \in Rotations(type) :
        \A r \in {SwitchEngineFn(Cur, NewEngine(type, rot, BiValues(tiles)), 0)} :
            /\ BiValues(r.tiles) \subseteq DOMAIN r.engine.nodes
            /\ \A w \in Windows, kt \in BiKeys(r.tiles), d \in Directions \cup {NoDir} :
                PutsInOwnTree(PutWindowInTileFn(r, w, kt, d, 0).calls, r.engine)
            /\ \A w \in Windows, active \in Windows :
                PutsInOwnTree(AddWindowFn(With(r, active, "Active", FALSE), w, 0).calls,
                              r.engine)

\* ---- C17 ----
\* the states regenerateLayout may find: the current one, and the current
\* one after the user split or removed a live tile
Edited ==
    {Cur} \cup {HostSplitFn(Cur, kt, d) :
                    kt \in {k \in DOMAIN kwinTiles : kwinTiles[k].tiles = <<>>},
                    d \in {Horizontal, Vertical}}
          \cup {HostRemoveFn(Cur, kt) : kt \in DOMAIN kwinTiles \ {RootKTile}}

\* the Tile as it is but for its requestedSize
Structure(node) == [node EXCEPT !.requestedSize = <<>>]

\* C17: on an engine without TilesMutable the walk of regenerateLayout
\* leaves the tile-map, the live tiles and the abstract tree as they are but
\* for requestedSize, and requestedSize changes only on abstract Tiles that
\* are registered for a live tile.
C17_SizesOnly ==
    "TilesMutable" \notin engine.engineCapability =>
        \A s \in Edited : \A r \in {RegenerateWalk(s, <<RootKTile>>)} :
            /\ r.tiles = s.tiles
            /\ r.kwinTiles = s.kwinTiles
            /\ DOMAIN r.engine.nodes = DOMAIN s.engine.nodes
            /\ \A t \in DOMAIN s.engine.nodes :
                /\ Structure(r.engine.nodes[t]) = Structure(s.engine.nodes[t])
                /\ r.engine.nodes[t].requestedSize # s.engine.nodes[t].requestedSize
                    => BiInvGet(s.tiles, t, NoKTile) \in DOMAIN s.kwinTiles

\* on an engine without TilesMutable the user has split a live tile: the
\* walk meets a live tile that is not registered and writes a requestedSize
C17_Witness ==
    /\ "TilesMutable" \notin engine.engineCapability
    /\ \E kt \in DOMAIN kwinTiles :
        /\ kwinTiles[kt].tiles = <<>>
        /\ \E s \in {HostSplitFn(Cur, kt, Vertical)} :
               /\ RegenerateWalk(s, <<RootKTile>>).engine.nodes # engine.nodes
               /\ \E k \in DOMAIN s.kwinTiles : ~BiHas(s.tiles, k)

\* ---- C18 ----
\* the tile-map of `r` takes the children of the live tile one-to-one onto
\* the children of its abstract counterpart
ChildrenCorrespond(r, kwinTile) ==
    LET kids == r.kwinTiles[kwinTile].tiles
        tile == BiGet(r.tiles, kwinTile, NoTile)
        image == {BiGet(r.tiles, kids[i], NoTile) : i \in 1 .. Len(kids)}
    IN  /\ NoTile \notin image
        /\ Cardinality(image) = Len(kids)
        /\ image = SeqToSet(r.engine.nodes[tile].tiles)

\* C18 as stated: on an engine with TilesMutable, the live root registered,
\* the walk of regenerateLayout ends with every live tile a key of the
\* tile-map and, for every live tile whose abstract counterpart is in the
\* engine's tree, the tile-map one-to-one between its live children and the
\* children of that counterpart.
C18_StructureSynchronized ==
    "TilesMutable" \in engine.engineCapability =>
        \A s \in Edited :
            BiHas(s.tiles, RootKTile) =>
                \A r \in {RegenerateWalk(s, <<RootKTile>>)} :
                    \A k \in DOMAIN r.kwinTiles :
                        /\ BiHas(r.tiles, k)
                        /\ BiGet(r.tiles, k, NoTile) \in DOMAIN r.engine.nodes
                            => ChildrenCorrespond(r, k)

\* ---- C19 ----
\* buildLayout of s returns at an occupant that has no window
Aborts(s) ==
    /\ ~TakesMaximizeSingle(s)
    /\ \E t \in Processed(s) :
        /\ s.engine.nodes[t].client # NoClient
        /\ BiInvGet(s.clients, s.engine.nodes[t].client, NoWindow) = NoWindow

\* the Tiles below the real root the walk has not taken from its queue
NotDequeued(s) ==
    ADescendants(s.engine.nodes, RealRootTile(s.engine.nodes, s.engine.rootTile))
        \ Processed(s)

\* C19: when buildLayout returns at an occupant without window, no Tile it
\* has not dequeued by then is worked on: its live tile, if it has one, is
\* not split, none of its children is registered, and the window of its
\* occupant keeps the tile it had.
C19_StopsAtOnce ==
    \A maximize \in BOOLEAN :
        \A s \in {With(Cur, NoWindow, "Default", maximize)} :
            Aborts(s) =>
                \A r \in {BuildLayoutFn(s)} : \A q \in NotDequeued(s) :
                    LET node == s.engine.nodes[q]
                        kwinTile == BiInvGet(r.tiles, q, NoKTile)
                        window == BiInvGet(s.clients, node.client, NoWindow)
                    IN  /\ kwinTile # NoKTile => r.kwinTiles[kwinTile].tiles = <<>>
                        /\ SeqToSet(node.tiles) \cap BiValues(r.tiles) = {}
                        /\ window # NoWindow => r.windows[window] = s.windows[window]

\* buildLayout returns at an occupant without window while the Tile of a
\* tracked window is still in its queue
C19_Witness ==
    /\ Aborts(Cur)
    /\ \E q \in NotDequeued(Cur) :
        engine.nodes[q].client \in BiValues(clients)

\* ---- C20 ----
\* the engine's tree up to the identity of its Tiles: children and occupant
\* of each Tile, the Tiles numbered breadth-first
ShapeOf(eng) ==
    LET order == BreadthFirst(eng.nodes, <<eng.rootTile>>)
    IN  [i \in 1 .. Len(order) |->
            [tiles |-> [j \in 1 .. Len(eng.nodes[order[i]].tiles) |->
                            IndexOf(order, eng.nodes[order[i]].tiles[j])],
             client |-> eng.nodes[order[i]].client]]

\* buildLayout of s splits a live tile
Splits(s) ==
    /\ ~TakesMaximizeSingle(s)
    /\ \E t \in Processed(s) : Len(s.engine.nodes[t].tiles) > 1

\* C20 as stated: when regenerateLayout runs inside buildLayout after each
\* live split, buildLayout returns without exception, the tile-map is
\* one-to-one, the engine's tree has the shape and the occupants it had, and
\* the window of every occupied leaf of that tree is on the live tile the
\* tile-map holds for the leaf.
C20_ReentryTolerated ==
    \A maximize \in BOOLEAN :
        \A s \in {With(Cur, NoWindow, "Default", maximize)} :
            Splits(s) /\ OccupantsTracked(s) =>
                \A r \in {ReenteredBuildLayoutFn(s)} :
                    /\ ~r.thrown
                    /\ OneToOne(r.tiles)
                    /\ ShapeOf(r.engine) = ShapeOf(s.engine)
                    /\ \A t \in ADescendants(r.engine.nodes, r.engine.rootTile) :
                        \A w \in Tracked(r) :
                            r.engine.nodes[t].client = BiGet(r.clients, w, NoClient)
                                => /\ r.windows[w].tile \in DOMAIN r.kwinTiles
                                   /\ r.windows[w].tile = BiInvGet(r.tiles, t, NoKTile)

\* ---- C21 ----
\* the occupied Tiles of the engine's tree
OccupiedTiles(eng) ==
    {t \in ADescendants(eng.nodes, eng.rootTile) : eng.nodes[t].client # NoClient}

\* the window is on a live tile of the tree that is registered for `tile`
OnTileOf(r, w, tile) ==
    /\ r.windows[w].tile \in DOMAIN r.kwinTiles
    /\ BiGet(r.tiles, r.windows[w].tile, NoTile) = tile

\* C21 as stated: after a buildLayout that neither returns at an occupant
\* without window nor maximizes, every occupied Tile of the engine's tree
\* has a window whose Client is the occupant and whose tile is the live tile
\* registered for that Tile, and no window at all is on a registered live
\* tile whose Tile has another occupant or none.
C21_PlacementAgrees ==
    \A maximize \in BOOLEAN :
        \A s \in {With(Cur, NoWindow, "Default", maximize)} :
            (~Aborts(s) /\ ~TakesMaximizeSingle(s)) =>
                \A r \in {BuildLayoutFn(s)} :
                    /\ \A t \in OccupiedTiles(r.engine) :
                        \E w \in Windows :
                            /\ BiGet(r.clients, w, NoClient) = r.engine.nodes[t].client
                            /\ OnTileOf(r, w, t)
                    /\ \A w \in Windows :
                        Assigned(r, w) =>
                            /\ BiHas(r.clients, w)
                            /\ r.engine.nodes[BiGet(r.tiles, r.windows[w].tile, NoTile)].client
                                    = BiGet(r.clients, w, NoClient)

\* C21, amended: after such a buildLayout every occupied Tile of the
\* engine's tree has a tracked window whose Client is the occupant and
\* whose tile is the live tile registered for the Tile, and the Tile
\* registered for the tile of a tracked window whose Client occupies a Tile
\* has that Client as occupant.  (A window that is not placed, removed
\* or left untiled by the engine, keeps the tile it had, which can be the
\* live root registered for another Tile.)
C21_PlacedWindowsAgree ==
    \A maximize \in BOOLEAN :
        \A s \in {With(Cur, NoWindow, "Default", maximize)} :
            (~Aborts(s) /\ ~TakesMaximizeSingle(s)) =>
                \A r \in {BuildLayoutFn(s)} :
                    /\ \A t \in OccupiedTiles(r.engine) :
                        \E w \in Tracked(r) :
                            /\ BiGet(r.clients, w, NoClient) = r.engine.nodes[t].client
                            /\ OnTileOf(r, w, t)
                    /\ \A w \in Tracked(r) :
                        Occupies(r.engine, BiGet(r.clients, w, NoClient)) =>
                            /\ Assigned(r, w)
                            /\ r.engine.nodes[BiGet(r.tiles, r.windows[w].tile, NoTile)].client
                                    = BiGet(r.clients, w, NoClient)

\* buildLayout has placed two windows on two live tiles, each registered for
\* the Tile of the window's Client, and it would do so again
C21_Witness ==
    /\ ~Aborts(Cur) /\ ~TakesMaximizeSingle(Cur)
    /\ Cardinality(OccupiedTiles(engine)) = 2
    /\ \A t \in OccupiedTiles(engine) : \E w \in Tracked(Cur) :
        /\ BiGet(clients, w, NoClient) = engine.nodes[t].client
        /\ OnTileOf(Cur, w, t)
    /\ \A t \in OccupiedTiles(Built(FALSE).engine) : \E w \in Tracked(Cur) :
        OnTileOf(Built(FALSE), w, t)

\* ---- C22 ----
\* the probe point the claim gives for a frame, a padding and a direction
ClaimedPoint(g, p, direction) ==
    CASE direction = "Above" -> GPoint(g.x + 1, g.y - (1 + p))
      [] direction = "Below" -> GPoint(g.x + 1, g.y + g.height + 1 + p)
      [] direction = "Left" -> GPoint(g.x - (1 + p), g.y + 1)
      [] direction = "Right" -> GPoint(g.x + g.width + 1 + p, g.y + 1)

\* how far the point lies beyond the edge of the frame on the side asked for
BeyondEdge(g, point, direction) ==
    CASE direction = "Above" -> g.y - point.y
      [] direction = "Below" -> point.y - (g.y + g.height)
      [] direction = "Left" -> g.x - point.x
      [] direction = "Right" -> point.x - (g.x + g.width)

\* C22: for a window on a live tile of padding p >= 0 and with frame
\* (x, y, width, height), the probe point of each direction is the one the
\* claim gives: 1 + p beyond the edge of the frame on the side asked for,
\* so strictly outside it, and 1 from the frame's origin on the other axis.
\* For a window with no tile there is no probe point, and insert makes no
\* driver call and leaves the driver as it is.  The probe an insert has
\* left agrees: without a point it made no driver call.
C22_ProbePoint ==
    /\ \A w \in Windows, direction \in Directions,
          g \in {probe.frameGeometry}, p \in {probe.padding} :
        \A point \in {PointInDirection(ProbedWindow(Cur, w, g, p), direction)} :
            /\ windows[w].tile \in DOMAIN kwinTiles =>
                /\ point = ClaimedPoint(g, p, direction)
                /\ BeyondEdge(g, point, direction) = 1 + p
                /\ BeyondEdge(g, point, direction) > 0
                /\ direction \in {"Above", "Below"} => point.x = g.x + 1
                /\ direction \in {"Left", "Right"} => point.y = g.y + 1
            /\ windows[w].tile = NoKTile => point = NoPoint
    /\ \A w \in Windows, direction \in Directions, found \in FoundChoices,
          maximize \in BOOLEAN :
        windows[w].tile = NoKTile =>
            \A r \in {InsertAtPoint(With(Cur, w, "Default", maximize),
                                    probe.frameGeometry, probe.padding,
                                    direction, found, "Below")} :
                /\ r.point = NoPoint
                /\ r.driverCalls = <<>>
                /\ r.state.calls = <<>>
                /\ Unchanged(r.state)
    /\ probe.direction # NoDir =>
        /\ probe.point = NoPoint <=> probe.driverCalls = <<>>
        /\ probe.point # NoPoint =>
            probe.point = ClaimedPoint(probe.frameGeometry, probe.padding,
                                       probe.direction)

\* an insert below a window on a live tile of positive padding has probed
\* and made its driver calls, and a window is without a tile
C22_Witness ==
    /\ probe.direction = "Below"
    /\ probe.padding > 0
    /\ probe.point = GPoint(probe.frameGeometry.x + 1,
                            probe.frameGeometry.y + probe.frameGeometry.height
                                + 1 + probe.padding)
    /\ probe.driverCalls = InsertCalls
    /\ \E w \in Windows : windows[w].tile = NoKTile
====
